---- MODULE Spec2Model ----
(***************************************************************************)
(* Model of huffman-rs (src/src/main.rs): the frequency aggregator         *)
(* (get_frequencies, get_frequencies_from_reader), the Huffman tree        *)
(* builder (HuffmanNode, its Ord implementation, build_huffman_tree on a   *)
(* std BinaryHeap) and the code table generator (generate_huffman_codes).  *)
(*                                                                         *)
(* Characters are modelled by their code points (97 = 'a', 10 = newline,   *)
(* 67 = 'C', ...), which is the order char::cmp uses.  A HashMap is a      *)
(* function whose DOMAIN is its key set; its iteration order is an         *)
(* arbitrary choice.  A String of '0'/'1' is a sequence of "0" and "1".    *)
(* Frequencies are mathematical naturals: the bounded inputs stay far      *)
(* below usize::MAX and u32::MAX.                                          *)
(***************************************************************************)
EXTENDS Integers, Sequences, FiniteSets, TLC

VARIABLES pc, input, rest, frequencies, freq_map, pending, heap,
          left, right, root, codes, outcome

vars == <<pc, input, rest, frequencies, freq_map, pending, heap,
          left, right, root, codes, outcome>>

\* ---------------------------------------------------------------- bounds
NumChars == 5
MaxFreq == 2
MaxLen == 3

\* the alphabet of the hand-constructed frequency maps: 'a', 'b', ...
Chars == 97..(96 + NumChars)
Freqs == 0..MaxFreq
\* the alphabet of the texts the reader delivers: newline, 'a', 'b'
TextChars == {10, 97, 98}

EmptyMap == [c \in {} |-> 0]

\* the frequency map of tests::test_binary_heap_from_frequencies
\* C:32 D:42 E:120 K:7 L:42 M:24 U:37 Z:2
TestFrequencies ==
    (67 :> 32) @@ (68 :> 42) @@ (69 :> 120) @@ (75 :> 7) @@
    (76 :> 42) @@ (77 :> 24) @@ (85 :> 37) @@ (90 :> 2)

\* the table the test expects
TestExpected ==
    (77 :> <<"1","1","1","1","1">>) @@ (68 :> <<"1","0","1">>) @@
    (85 :> <<"1","0","0">>) @@ (67 :> <<"1","1","1","0">>) @@
    (69 :> <<"0">>) @@ (75 :> <<"1","1","1","1","0","1">>) @@
    (76 :> <<"1","1","0">>) @@ (90 :> <<"1","1","1","1","0","0">>)

\* a hand-constructed map in which Internal nodes tie with leaves:
\* a:1 b:1 c:1 d:1 e:1 f:2 g:2
TieFrequencies ==
    (97 :> 1) @@ (98 :> 1) @@ (99 :> 1) @@ (100 :> 1) @@ (101 :> 1) @@
    (102 :> 2) @@ (103 :> 2)

\* every HashMap<char, usize> over Chars, the empty one included
FrequencyMaps == UNION {[D -> Freqs] : D \in SUBSET Chars}

Texts == UNION {[1..n -> TextChars] : n \in 0..MaxLen}

\* ------------------------------------------------------------ HuffmanNode
Leaf(character, f) == [tag |-> "Leaf", character |-> character, frequency |-> f]

InternalTwice(l, r) == [tag |-> "Internal", left |-> l, right |-> l]

Internal(l, r) == [tag |-> "Internal", left |-> l, right |-> r]

\* value of the locals left, right and root while they hold no node
NoNode == [tag |-> "None"]

RECURSIVE frequency(_)
frequency(node) ==
    IF node.tag = "Internal"
    THEN frequency(node.left) + frequency(node.right)
    ELSE node.frequency

\* usize::cmp / char::cmp
IntCmp(x, y) == IF x < y THEN "Less" ELSE IF x = y THEN "Equal" ELSE "Greater"

cmpAscending(self, other) ==
    LET ordering == IntCmp(frequency(self), frequency(other))
    IN  IF ordering = "Equal"
        THEN IF self.tag # "Leaf" THEN ordering
             ELSE IF other.tag # "Leaf" THEN ordering
             ELSE IntCmp(other.character, self.character)
        ELSE ordering

cmpCharFlipped(self, other) ==
    LET ordering == IntCmp(frequency(other), frequency(self))
    IN  IF ordering = "Equal"
        THEN IF self.tag # "Leaf" THEN ordering
             ELSE IF other.tag # "Leaf" THEN ordering
             ELSE IntCmp(self.character, other.character)
        ELSE ordering

cmpFrequencyOnly(self, other) == IntCmp(frequency(other), frequency(self))

\* <HuffmanNode as Ord>::cmp(self, other)
cmp(self, other) ==
    LET ordering == IntCmp(frequency(other), frequency(self))
    IN  IF ordering = "Equal"
        THEN IF self.tag # "Leaf" THEN ordering
             ELSE IF other.tag # "Leaf" THEN ordering
             ELSE IntCmp(other.character, self.character)
        ELSE ordering

\* PartialOrd::le through partial_cmp = Some(cmp)
le(a, b) == cmp(a, b) \in {"Less", "Equal"}

\* ------------------------------------------------- std BinaryHeap (max-heap)
\* data is the heap's Vec; Vec index i is sequence index i + 1
At(data, i) == data[i + 1]

Put(data, i, x) == [data EXCEPT ![i + 1] = x]

\* sift_up(start, pos) with the hole's element held aside
RECURSIVE sift_up(_, _, _, _)
sift_up(data, start, pos, elt) ==
    IF pos > start
    THEN LET parent == (pos - 1) \div 2
         IN  IF le(elt, At(data, parent))
             THEN Put(data, pos, elt)
             ELSE sift_up(Put(data, pos, At(data, parent)), start, parent, elt)
    ELSE Put(data, pos, elt)

\* BinaryHeap::push
push(data, item) ==
    LET old_len == Len(data)
    IN  sift_up(Append(data, item), 0, old_len, item)

\* the descent of sift_down_to_bottom: returns the data and the hole position
RECURSIVE sift_down(_, _, _)
sift_down(data, pos, end) ==
    LET child == 2 * pos + 1
        limit == IF end >= 2 THEN end - 2 ELSE 0
    IN  IF child <= limit
        THEN LET c == IF le(At(data, child), At(data, child + 1))
                      THEN child + 1 ELSE child
             IN  sift_down(Put(data, pos, At(data, c)), c, end)
        ELSE IF child = end - 1
             THEN [data |-> Put(data, pos, At(data, child)), pos |-> child]
             ELSE [data |-> data, pos |-> pos]

\* sift_down_to_bottom(0) followed by its closing sift_up
sift_down_to_bottom(data, start) ==
    LET elt == At(data, start)
        d == sift_down(data, start, Len(data))
    IN  sift_up(d.data, start, d.pos, elt)

\* BinaryHeap::pop on a non-empty heap: the item and the remaining Vec
pop(data) ==
    LET item == data[Len(data)]
        shorter == SubSeq(data, 1, Len(data) - 1)
    IN  IF shorter # << >>
        THEN [item |-> shorter[1],
              data |-> sift_down_to_bottom(Put(shorter, 0, item), 0)]
        ELSE [item |-> item, data |-> shorter]

\* ------------------------------------------------------------ HashMap ops
\* HashMap::insert
insert(map, k, v) == [x \in DOMAIN map \cup {k} |-> IF x = k THEN v ELSE map[x]]

\* *map.entry(k).or_insert(0) += v
add_entry(map, k, v) ==
    [x \in DOMAIN map \cup {k} |->
        (IF x \in DOMAIN map THEN map[x] ELSE 0) + (IF x = k THEN v ELSE 0)]

\* ------------------------------------------------- generate_huffman_codes
RECURSIVE generate_codes_same_bit(_, _, _)
generate_codes_same_bit(node, prefix, table) ==
    IF node.tag = "Leaf"
    THEN insert(table, node.character, prefix)
    ELSE generate_codes_same_bit(node.right, Append(prefix, "0"),
            generate_codes_same_bit(node.left, Append(prefix, "0"), table))

RECURSIVE generate_codes_left_only(_, _, _)
generate_codes_left_only(node, prefix, table) ==
    IF node.tag = "Leaf"
    THEN insert(table, node.character, prefix)
    ELSE generate_codes_left_only(node.left, Append(prefix, "0"), table)

RECURSIVE generate_huffman_codes(_, _, _)
generate_huffman_codes(node, prefix, table) ==
    IF node.tag = "Leaf"
    THEN insert(table, node.character, prefix)
    ELSE generate_huffman_codes(node.right, Append(prefix, "1"),
            generate_huffman_codes(node.left, Append(prefix, "0"), table))

\* --------------------------------------------------------- get_frequencies
RECURSIVE count_chars(_, _)
count_chars(line, map) ==
    IF line = << >> THEN map
    ELSE count_chars(Tail(line), add_entry(map, Head(line), 1))

get_frequencies(line) == count_chars(line, EmptyMap)

RECURSIVE merge_overwrite(_, _)
merge_overwrite(map, temp) ==
    IF DOMAIN temp = {} THEN map
    ELSE LET key == CHOOSE k \in DOMAIN temp : TRUE
             others == [x \in DOMAIN temp \ {key} |-> temp[x]]
         IN  merge_overwrite(insert(map, key, temp[key]), others)

\* the loop "for (key, value) in frequencies_temp" of the reader
RECURSIVE merge_frequencies(_, _)
merge_frequencies(map, temp) ==
    IF DOMAIN temp = {} THEN map
    ELSE LET key == CHOOSE k \in DOMAIN temp : TRUE
             others == [x \in DOMAIN temp \ {key} |-> temp[x]]
         IN  merge_frequencies(add_entry(map, key, temp[key]), others)

\* ------------------------------------------------------------------- Init
InitReader ==
    /\ pc = "read_line"
    /\ input \in Texts
    /\ rest = input
    /\ freq_map = EmptyMap
    /\ pending = {}

InitBuilder ==
    /\ pc = "push"
    /\ input = << >>
    /\ rest = << >>
    /\ freq_map \in FrequencyMaps \cup {TestFrequencies, TieFrequencies}
    /\ pending = DOMAIN freq_map

Init ==
    /\ InitReader \/ InitBuilder
    /\ frequencies = EmptyMap
    /\ heap = << >>
    /\ left = NoNode
    /\ right = NoNode
    /\ root = NoNode
    /\ codes = EmptyMap
    /\ outcome = "running"

builderVars == <<freq_map, pending, heap, left, right, root, codes>>

\* --------------------------------------------- get_frequencies_from_reader
\* one iteration of the while loop: read_line appended a non-empty chunk.
\* R is any BufRead, so the chunk is any non-empty prefix of what is left
\* (a standard reader ends it after the first newline or at the end)
ReadLine ==
    /\ pc = "read_line"
    /\ \E n \in 1..Len(rest) :
        LET line == SubSeq(rest, 1, n)
        IN  /\ frequencies' = merge_frequencies(frequencies, get_frequencies(line))
            /\ rest' = SubSeq(rest, n + 1, Len(rest))
    /\ UNCHANGED <<pc, input, outcome>>
    /\ UNCHANGED builderVars

\* read_line returned Ok(0): the loop ends and Ok(frequencies) is returned
ReadEnd ==
    /\ pc = "read_line"
    /\ rest = << >>
    /\ pc' = "returned"
    /\ outcome' = "Ok"
    /\ UNCHANGED <<input, rest, frequencies>>
    /\ UNCHANGED builderVars

\* read_line returned Err: the ? operator returns it, the map is dropped
ReadFail ==
    /\ pc = "read_line"
    /\ pc' = "returned"
    /\ outcome' = "Err"
    /\ frequencies' = EmptyMap
    /\ UNCHANGED <<input, rest>>
    /\ UNCHANGED builderVars

\* ------------------------------------------------------ build_huffman_tree
\* one iteration of "for (&character, &frequency) in freq_map.iter()"
PushLeaf ==
    /\ pc = "push"
    /\ \E character \in pending :
        /\ heap' = push(heap, Leaf(character, freq_map[character]))
        /\ pending' = pending \ {character}
    /\ UNCHANGED <<pc, input, rest, frequencies, freq_map, left, right, root,
                   codes, outcome>>

\* the iterator is exhausted
EndFor ==
    /\ pc = "push"
    /\ pending = {}
    /\ pc' = "loop"
    /\ UNCHANGED <<input, rest, frequencies, outcome>>
    /\ UNCHANGED builderVars

\* let left = heap.pop().unwrap();
PopLeft ==
    /\ pc = "loop"
    /\ Len(heap) > 1
    /\ left' = pop(heap).item
    /\ heap' = pop(heap).data
    /\ pc' = "pop_right"
    /\ UNCHANGED <<input, rest, frequencies, freq_map, pending, right, root,
                   codes, outcome>>

\* let right = heap.pop().unwrap();
PopRight ==
    /\ pc = "pop_right"
    /\ right' = pop(heap).item
    /\ heap' = pop(heap).data
    /\ pc' = "push_internal"
    /\ UNCHANGED <<input, rest, frequencies, freq_map, pending, left, root,
                   codes, outcome>>

\* heap.push(internal): left and right are moved into the new node
PushInternal ==
    /\ pc = "push_internal"
    /\ heap' = push(heap, Internal(left, right))
    /\ left' = NoNode
    /\ right' = NoNode
    /\ pc' = "loop"
    /\ UNCHANGED <<input, rest, frequencies, freq_map, pending, root, codes,
                   outcome>>

\* heap.pop().unwrap() after the loop: unwrap panics on an empty heap
Return ==
    /\ pc = "loop"
    /\ Len(heap) <= 1
    /\ IF heap = << >>
       THEN /\ outcome' = "panic"
            /\ pc' = "done"
            /\ UNCHANGED <<heap, root>>
       ELSE /\ root' = pop(heap).item
            /\ heap' = pop(heap).data
            /\ outcome' = "Ok"
            /\ pc' = "built"
    /\ UNCHANGED <<input, rest, frequencies, freq_map, pending, left, right,
                   codes>>

\* generate_huffman_codes(&root, String::new(), &mut huffman_codes)
GenerateCodes ==
    /\ pc = "built"
    /\ codes' = generate_huffman_codes(root, << >>, EmptyMap)
    /\ pc' = "done"
    /\ UNCHANGED <<input, rest, frequencies, freq_map, pending, heap, left,
                   right, root, outcome>>

Next ==
    \/ ReadLine
    \/ ReadEnd
    \/ ReadFail
    \/ PushLeaf
    \/ EndFor
    \/ PopLeft
    \/ PopRight
    \/ PushInternal
    \/ Return
    \/ GenerateCodes

Spec == Init /\ [][Next]_vars

\* ------------------------------------------------- whole-run reference build
\* the keys of a map in ascending character order
RECURSIVE Ascending(_)
Ascending(S) ==
    IF S = {} THEN << >>
    ELSE LET m == CHOOSE x \in S : \A y \in S : x <= y
         IN  <<m>> \o Ascending(S \ {m})

\* the heap after the for loop pushed the leaves of fm in the given key order
RECURSIVE PushAll(_, _, _)
PushAll(data, fm, order) ==
    IF order = << >> THEN data
    ELSE PushAll(push(data, Leaf(Head(order), fm[Head(order)])), fm, Tail(order))

\* the while loop of build_huffman_tree run to its end
RECURSIVE MergeLoop(_)
MergeLoop(data) ==
    IF Len(data) > 1
    THEN LET first == pop(data)
             second == pop(first.data)
         IN  MergeLoop(push(second.data, Internal(first.item, second.item)))
    ELSE data

\* the tree build_huffman_tree returns when the map iterates in this order
TreeForOrder(fm, order) == pop(MergeLoop(PushAll(<< >>, fm, order))).item

\* ------------------------------------------------------- property helpers
IsPrefix(s, t) == Len(s) <= Len(t) /\ SubSeq(t, 1, Len(s)) = s

\* the leaves of a tree, left to right
RECURSIVE LeafSeq(_)
LeafSeq(node) ==
    IF node.tag = "Internal" THEN LeafSeq(node.left) \o LeafSeq(node.right)
    ELSE <<node>>

\* the nodes of a tree
RECURSIVE Nodes(_)
Nodes(node) ==
    IF node.tag = "Internal"
    THEN {node} \cup Nodes(node.left) \cup Nodes(node.right)
    ELSE {node}

\* sum of the leaf frequency times the leaf depth
RECURSIVE WeightedLength(_, _)
WeightedLength(node, depth) ==
    IF node.tag = "Internal"
    THEN WeightedLength(node.left, depth + 1) + WeightedLength(node.right, depth + 1)
    ELSE node.frequency * depth

RECURSIVE SumOver(_, _)
SumOver(fm, S) ==
    IF S = {} THEN 0
    ELSE LET x == CHOOSE y \in S : TRUE IN fm[x] + SumOver(fm, S \ {x})

SumMap(fm) == SumOver(fm, DOMAIN fm)

RECURSIVE HeapSum(_)
HeapSum(data) ==
    IF data = << >> THEN 0 ELSE frequency(Head(data)) + HeapSum(Tail(data))

Min(S) == CHOOSE x \in S : \A y \in S : x <= y

\* the least weighted length of a binary tree whose leaves are the keys S:
\* the root splits S in two, and every leaf lies one level deeper
RECURSIVE OptimalLength(_, _)
OptimalLength(fm, S) ==
    IF Cardinality(S) <= 1 THEN 0
    ELSE LET m == CHOOSE x \in S : TRUE
         IN  SumOver(fm, S) +
             Min({OptimalLength(fm, A) + OptimalLength(fm, S \ A) :
                    A \in {B \in SUBSET S : m \in B /\ B # S}})

Occurrences(text, c) == Cardinality({i \in 1..Len(text) : text[i] = c})

Positive == \A c \in DOMAIN freq_map : freq_map[c] > 0

Built == pc \in {"built", "done"} /\ outcome = "Ok"

Coded == pc = "done" /\ outcome = "Ok"

\* ------------------------------------------------------------------ claims
\* C1: for a map of at least two entries with positive frequencies, in the
\* finished code table neither of two distinct characters' codes is a prefix
\* of the other
C1_PrefixFree ==
    (Coded /\ Cardinality(DOMAIN freq_map) >= 2 /\ Positive) =>
        \A c, d \in DOMAIN codes :
            c # d => ~IsPrefix(codes[c], codes[d])

C1_Witness ==
    /\ Coded
    /\ Positive
    /\ Cardinality(DOMAIN freq_map) >= 3
    /\ \E c, d \in DOMAIN codes : Len(codes[c]) = 1 /\ Len(codes[d]) = 2

\* C2: for a non-empty map the build ends without an error, the returned
\* tree has exactly one leaf per character of the map with its frequency,
\* and the code table has exactly the map's characters as keys
C2_OneLeafPerCharacter ==
    DOMAIN freq_map # {} =>
        /\ pc = "done" => outcome = "Ok"
        /\ Built =>
            /\ Len(LeafSeq(root)) = Cardinality(DOMAIN freq_map)
            /\ {LeafSeq(root)[i] : i \in 1..Len(LeafSeq(root))}
                 = {Leaf(c, freq_map[c]) : c \in DOMAIN freq_map}
        /\ Coded => DOMAIN codes = DOMAIN freq_map

C2_Witness ==
    /\ Coded
    /\ Cardinality(DOMAIN freq_map) = 1
    /\ root.tag = "Leaf"
    /\ \E c \in DOMAIN freq_map : codes = (c :> << >>)

\* C3: the two nodes popped in a merge step have the two lowest frequencies
\* of the nodes that were in the heap, and for positive frequencies the
\* returned tree has the least weighted code length of all binary trees
\* over the map's characters
C3_Optimal ==
    /\ pc = "push_internal" =>
        /\ frequency(left) <= frequency(right)
        /\ \A i \in 1..Len(heap) : frequency(right) <= frequency(heap[i])
    /\ (Built /\ Positive) =>
        WeightedLength(root, 0) = OptimalLength(freq_map, DOMAIN freq_map)

C3_Witness ==
    /\ Built
    /\ Positive
    /\ Cardinality(DOMAIN freq_map) >= 4
    /\ \E n \in Nodes(root) :
        /\ n.tag = "Internal"
        /\ n.left.tag # n.right.tag
        /\ frequency(n.left) = frequency(n.right)

\* C4: whatever the iteration order of the map, the returned tree is the
\* one the ascending order gives, and so is the code table (stated for the
\* maps of positive frequencies, the ones the aggregator can produce)
C4_Deterministic ==
    (Built /\ Positive) =>
        /\ root = TreeForOrder(freq_map, Ascending(DOMAIN freq_map))
        /\ pc = "done" =>
             codes = generate_huffman_codes(
                        TreeForOrder(freq_map, Ascending(DOMAIN freq_map)),
                        << >>, EmptyMap)

\* C5: the map of the repository's test yields exactly the expected table,
\* whatever the order in which its eight entries are pushed
C5_TestTable ==
    (Coded /\ freq_map = TestFrequencies) => codes = TestExpected

C5_Witness ==
    /\ Coded
    /\ freq_map = TestFrequencies
    /\ DOMAIN codes = DOMAIN TestFrequencies
    /\ codes[69] = <<"0">>

\* C6: the map the reader returns gives each character of the text its
\* number of occurrences and has no other key, equals get_frequencies of
\* the whole text, and its values sum to the length of the text
C6_ChunkInvariant ==
    (pc = "returned" /\ outcome = "Ok") =>
        /\ DOMAIN frequencies = {input[i] : i \in 1..Len(input)}
        /\ \A c \in DOMAIN frequencies :
             frequencies[c] = Occurrences(input, c)
        /\ frequencies = get_frequencies(input)
        /\ SumMap(frequencies) = Len(input)

C6_Witness ==
    /\ pc = "returned"
    /\ outcome = "Ok"
    /\ input = <<97, 10, 97>>
    /\ frequencies = (10 :> 1) @@ (97 :> 2)

\* C7: a build on the empty map ends with an EmptyInputError returned to
\* the caller
C7_EmptyInputError ==
    (pc = "done" /\ DOMAIN freq_map = {}) => outcome = "EmptyInputError"

\* C8: a build on a map holding a zero frequency ends with an
\* InvalidFrequencyError and no tree
C8_InvalidFrequencyError ==
    (pc \in {"built", "done"} /\ ~Positive) =>
        /\ outcome = "InvalidFrequencyError"
        /\ root = NoNode

\* the steps that extract a node from the heap inside the merge loop
PopStep ==
    \/ pc = "loop" /\ pc' = "pop_right"
    \/ pc = "pop_right" /\ pc' = "push_internal"

Extracted == IF pc = "loop" THEN left' ELSE right'

\* some other leaf of the heap has the frequency of the extracted leaf
Rival(i) ==
    /\ heap[i].tag = "Leaf"
    /\ heap[i].frequency = Extracted.frequency
    /\ heap[i].character # Extracted.character

MergedLeaves ==
    /\ pc = "push_internal"
    /\ left.tag = "Leaf"
    /\ right.tag = "Leaf"
    /\ left.frequency = right.frequency

\* every node built so far: the trees in the heap and the popped left
BuiltNodes ==
    UNION ({Nodes(heap[i]) : i \in 1..Len(heap)}
             \cup {IF left = NoNode THEN {} ELSE Nodes(left)})

\* no Internal node of frequency f has been formed so far
OnlyLeavesOf(f) ==
    \A n \in BuiltNodes : n.tag = "Internal" => frequency(n) # f

C10_FrequencySum ==
    /\ pc = "loop" =>
        /\ HeapSum(heap) = SumMap(freq_map)
        /\ \A i \in 1..Len(heap) : \A n \in Nodes(heap[i]) :
             n.tag = "Internal" =>
                /\ frequency(n) = frequency(n.left) + frequency(n.right)
                /\ frequency(n) = HeapSum(LeafSeq(n))
    /\ Built => frequency(root) = SumMap(freq_map)

C10_Witness ==
    /\ pc = "loop"
    /\ Len(heap) >= 2
    /\ SumMap(freq_map) >= 4
    /\ \E i \in 1..Len(heap) : heap[i].tag = "Internal"

====
